---- MODULE Spec2Model ----
(***************************************************************************)
(* Model of extract_pdf.py: the Paginator (split_pdf), the Archive         *)
(* Organizer (process_zip_output), the Extraction Client call              *)
(* (extract_single_pdf) and the Batch Orchestrator (main).                 *)
(*                                                                         *)
(* Paths are modelled by small values: the input document is pdf_path, the *)
(* n-th NamedTemporaryFile of split_pdf is the number n; folders are       *)
(* records [part, start_page, end_page], part 0 being the top-level output *)
(* folder.  The archive path <pdf_basename>_temp.zip is the variable       *)
(* zip_file.  Failures of the external service and of the filesystem are   *)
(* nondeterministic outcomes of the calls that can raise.                  *)
(***************************************************************************)
EXTENDS Integers, Sequences, FiniteSets, TLC

\* ------------------------------------------------------------------ bounds

\* The documents explored have up to MaxBatches full batches, and one page more.
MaxBatches == 2
\* At most this many calls raise an exception in one run.
MaxFaults == 2
\* Page counts and limits explored for split_pdf on its own.
MaxTotal == 12
MaxLimit == 6
\* The option prompt is answered with a number in MinOption..MaxOption, or
\* with text that is not a number.
MaxOption == 5

\* --------------------------------------------------------------- constants

PAGES_PER_BATCH == 100

\* The input document's path (the temporary files of split_pdf are 1, 2, ...).
pdf_path == 0

Min(a, b) == IF a <= b THEN a ELSE b

Last(s) == s[Len(s)]

\* os.path.join(pdf_dir, pdf_basename)
output_folder == [part |-> 0, start_page |-> 0, end_page |-> 0]

\* os.path.join(output_folder, f"part{i+1}_p{start_page}-{end_page}")
part_folder(i, start_page, end_page) ==
    [part |-> i + 1, start_page |-> start_page, end_page |-> end_page]

\* No file at <pdf_basename>_temp.zip.
NoZip == [state |-> "none", seg |-> 0, kind |-> 0]

\* The answers the option prompt can get.
NoInput == [numeric |-> FALSE, value |-> -1]

OptionInputs ==
    {[numeric |-> TRUE, value |-> n] : n \in 0..MaxOption}
        \cup {[numeric |-> FALSE, value |-> 0]}

\* Page counts of the documents explored: each multiple of the limit, one page
\* less and one page more.
PageCounts ==
    {n \in 1..(MaxBatches * PAGES_PER_BATCH + 1) :
        \E k \in 0..MaxBatches : \E d \in {-1, 0, 1} :
            n = k * PAGES_PER_BATCH + d}

\* An entry of the run's trace of calls and prints.
Ev(e, s, k) == [ev |-> e, seg |-> s, kind |-> k]

\* ---------------------------------------------------------- pure functions

\* get_extract_params: the request shape per option; raises for any other.
get_extract_params(option) ==
    CASE option = 1 -> [raises |-> FALSE, elements |-> {"TEXT"},
                        renditions |-> {}, table_csv |-> FALSE]
      [] option = 2 -> [raises |-> FALSE, elements |-> {"TEXT"},
                        renditions |-> {"FIGURES"}, table_csv |-> FALSE]
      [] option = 3 -> [raises |-> FALSE, elements |-> {"TABLES"},
                        renditions |-> {}, table_csv |-> TRUE]
      [] OTHER -> [raises |-> TRUE, elements |-> {},
                   renditions |-> {}, table_csv |-> FALSE]

RECURSIVE split_loop_NoClamp(_, _, _, _)
split_loop_NoClamp(start, total_pages, pages_per_batch, temp_files) ==
    IF start >= total_pages THEN temp_files
    ELSE LET temp_file == [path |-> Len(temp_files) + 1,
                           first |-> start + 1, last |-> start + pages_per_batch]
         IN  split_loop_NoClamp(start + pages_per_batch, total_pages,
                                pages_per_batch, Append(temp_files, temp_file))

\* The loop of split_pdf: for start in range(0, total_pages, pages_per_batch).
\* A segment file holds the original pages first..last (1-indexed), i.e. the
\* reader's pages start..end-1.
RECURSIVE split_loop(_, _, _, _)
split_loop(start, total_pages, pages_per_batch, temp_files) ==
    IF start >= total_pages THEN temp_files
    ELSE LET end == Min(start + pages_per_batch, total_pages)
             temp_file == [path |-> Len(temp_files) + 1,
                           first |-> start + 1, last |-> end]
         IN  split_loop(start + pages_per_batch, total_pages, pages_per_batch,
                        Append(temp_files, temp_file))

\* split_pdf: the list of segment files, the input itself when it fits.
split_pdf(total_pages, pages_per_batch) ==
    IF total_pages <= pages_per_batch
    THEN <<[path |-> pdf_path, first |-> 1, last |-> total_pages]>>
    ELSE split_loop(0, total_pages, pages_per_batch, <<>>)

\* The paths of the temporary files among a list of segment files.
TempPaths(segs) == {segs[j].path : j \in 1..Len(segs)} \ {pdf_path}

\* extract_single_pdf(pdf_services, pdf, zip_path, option) under an outcome:
\*   "downloaded"    every call returns, the archive is written to zip_path;
\*   "service_error" upload, submit or get_job_result raises: zip_path untouched;
\*   "write_error"   open(zip_path, "wb") created the file, the write raises.
\* get_extract_params raises before anything is written.
extract_single_pdf(zip, seg, option, outcome) ==
    IF get_extract_params(option).raises \/ outcome = "service_error"
    THEN [raised |-> TRUE, zip |-> zip]
    ELSE IF outcome = "write_error"
    THEN [raised |-> TRUE, zip |-> [state |-> "partial", seg |-> seg, kind |-> option]]
    ELSE [raised |-> FALSE, zip |-> [state |-> "archive", seg |-> seg, kind |-> option]]

ExtractOutcomes == {"downloaded", "service_error", "write_error"}

\* The destination member process_zip_output creates per option.
destination_name(option) ==
    CASE option = 1 -> <<"text.txt">>
      [] option = 2 -> <<"images">>
      [] option = 3 -> <<"tables">>
      [] OTHER -> <<>>

\* process_zip_output(zip_path, output_dir, option, base_name) under an outcome:
\*   "present"  the expected member is in the archive and is copied;
\*   "absent"   the expected member is not in the archive;
\*   "bad_zip"  zipfile.ZipFile(zip_path) raises, before mkdtemp;
\*   "io_error" extractall, extract_text_from_json or copytree raises, after
\*              mkdtemp.
\* The result is the state the function leaves: the archive path, the number
\* of scratch directories it left behind, and its return value.
process_zip_output(zip, option, outcome) ==
    CASE outcome = "bad_zip" ->
            [raised |-> TRUE, zip |-> zip, scratch |-> 0, created_files |-> <<>>]
      [] outcome = "io_error" ->
            [raised |-> TRUE, zip |-> zip, scratch |-> 1, created_files |-> <<>>]
      [] outcome = "present" ->
            [raised |-> FALSE, zip |-> NoZip, scratch |-> 0,
             created_files |-> destination_name(option)]
      [] OTHER ->
            [raised |-> FALSE, zip |-> NoZip, scratch |-> 0, created_files |-> <<>>]

OrganizeOutcomes == {"present", "absent", "bad_zip", "io_error"}

\* options_to_run = [1, 2, 3] if option == 4 else [option]
options_to_run_Reordered(option) == IF option = 4 THEN <<1, 3, 2>> ELSE <<option>>

options_to_run(option) == IF option = 4 THEN <<1, 2, 3>> ELSE <<option>>

\* for sub_option in [1, 2, 3] of the single-document branch
single_sub_options == <<1, 2, 3>>

\* num_batches = (total_pages + PAGES_PER_BATCH - 1) // PAGES_PER_BATCH
num_batches_of(total) == (total + PAGES_PER_BATCH - 1) \div PAGES_PER_BATCH

\* start_page = i * PAGES_PER_BATCH + 1
start_page_of(i) == i * PAGES_PER_BATCH + 1

end_page_of_Unclamped(i, total) == (i + 1) * PAGES_PER_BATCH

\* end_page = min((i + 1) * PAGES_PER_BATCH, total_pages)
end_page_of(i, total) == Min((i + 1) * PAGES_PER_BATCH, total)

\* The answer to the option prompt is accepted: an integer within 1..4.
valid_option_Lenient(input) == input.numeric /\ input.value >= 1

valid_option(input) == input.numeric /\ ~(input.value < 1 \/ input.value > 4)

\* ------------------------------------------------------------------- state

VARIABLES
    pc,                \* position of main
    path_exists,       \* os.path.exists(pdf_path) at the prompt
    doc_pages,         \* len(PdfReader(pdf_path).pages) of the input document
    limit,             \* the pages_per_batch argument of split_pdf
    option_input,      \* the answer to "Select (1-4): "
    option,            \* main's option
    total_pages,       \* main's total_pages
    files,             \* the PDF files on disk: pdf_path and temporary segments
    dirs,              \* the output folders on disk
    zip_file,          \* the file at <pdf_basename>_temp.zip
    temp_dirs,         \* number of mkdtemp scratch directories on disk
    created_files,     \* the last return value of process_zip_output
    temp_files,        \* main's temp_files, the result of split_pdf
    num_batches,       \* main's num_batches
    i,                 \* index of the batched loop (0-based, as enumerate)
    sub_idx,           \* position in the list of kinds (1-based)
    part,              \* part_folder of the segment being processed
    all_created_files, \* main's all_created_files
    summary,           \* what the final summary printed
    trace              \* the calls and prints of the run, in order

vars == <<pc, path_exists, doc_pages, limit, option_input, option, total_pages,
          files, dirs, zip_file, temp_dirs, created_files, temp_files,
          num_batches, i, sub_idx, part, all_created_files, summary, trace>>

NoSummary == [printed |-> FALSE, count |-> 0, paths |-> <<>>]

\* Number of calls that raised so far in the run.
Faults ==
    Cardinality({j \in DOMAIN trace : trace[j].ev \in {"failure", "traceback"}})

\* The state before the first prompt: the document is on disk or is not.
Init ==
    /\ pc = "input_path"
    /\ path_exists \in BOOLEAN
    /\ doc_pages \in PageCounts
    /\ limit = PAGES_PER_BATCH
    /\ option_input = NoInput
    /\ option = 0
    /\ total_pages = 0
    /\ files = IF path_exists THEN {pdf_path} ELSE {}
    /\ dirs = {}
    /\ zip_file = NoZip
    /\ temp_dirs = 0
    /\ created_files = <<>>
    /\ temp_files = <<>>
    /\ num_batches = 0
    /\ i = 0
    /\ sub_idx = 1
    /\ part = output_folder
    /\ all_created_files = <<>>
    /\ summary = NoSummary
    /\ trace = <<>>

\* ----------------------------------------------------------------- actions

\* Lines 160-165: the path prompt; a missing file ends the run.
InputPath ==
    /\ pc = "input_path"
    /\ pc' = IF ~path_exists THEN "terminated" ELSE "select"
    /\ UNCHANGED <<path_exists, doc_pages, limit, option_input, option,
                   total_pages, files, dirs, zip_file, temp_dirs, created_files,
                   temp_files, num_batches, i, sub_idx, part,
                   all_created_files, summary, trace>>

\* Lines 178-217: the option prompt; an answer that is no number within 1..4
\* ends the run.  Otherwise the client is built and the pages are counted.
SelectOption ==
    /\ pc = "select"
    /\ \E input \in OptionInputs :
        /\ option_input' = input
        /\ IF valid_option(input)
           THEN /\ option' = input.value
                /\ total_pages' = doc_pages
                /\ all_created_files' = <<>>
                /\ pc' = "plan"
           ELSE /\ pc' = "terminated"
                /\ UNCHANGED <<option, total_pages, all_created_files>>
    /\ UNCHANGED <<path_exists, doc_pages, limit, files, dirs, zip_file,
                   temp_dirs, created_files, temp_files, num_batches, i,
                   sub_idx, part, summary, trace>>

\* Lines 219-223 (and 225, 249): the single-document branch is taken and the
\* output folder is made.
PlanSingle ==
    /\ pc = "plan"
    /\ total_pages <= PAGES_PER_BATCH
    /\ dirs' = dirs \cup {output_folder}
    /\ part' = output_folder
    /\ sub_idx' = 1
    /\ pc' = IF option = 4 THEN "single4_extract" ELSE "single_extract"
    /\ UNCHANGED <<path_exists, doc_pages, limit, option_input, option,
                   total_pages, files, zip_file, temp_dirs, created_files,
                   temp_files, num_batches, i, all_created_files, summary,
                   trace>>

\* What follows a (sub_option) unit of the option-4 loop of the single-document
\* branch: the delay (lines 247-248) and the next iteration or the loop's end.
single4_tail(sub_option) ==
    IF sub_option < 3 THEN <<Ev("sleep", 0, 0)>> ELSE <<>>

\* Lines 230-248, first half: the request of one kind; a failure is caught.
Single4Extract ==
    /\ pc = "single4_extract"
    /\ \E outcome \in ExtractOutcomes :
        LET sub_option == single_sub_options[sub_idx]
            r == extract_single_pdf(zip_file, 1, sub_option, outcome)
            last == sub_idx = Len(single_sub_options)
        IN  /\ r.raised => Faults < MaxFaults
            /\ IF r.raised
               THEN /\ zip_file' = NoZip
                    /\ trace' = trace \o <<Ev("request", 1, sub_option),
                                           Ev("failure", 1, sub_option)>>
                                      \o single4_tail(sub_option)
                    /\ sub_idx' = IF last THEN sub_idx ELSE sub_idx + 1
                    /\ pc' = IF last THEN "summary" ELSE "single4_extract"
               ELSE /\ zip_file' = r.zip
                    /\ trace' = Append(trace, Ev("request", 1, sub_option))
                    /\ pc' = "single4_organize"
                    /\ UNCHANGED sub_idx
    /\ UNCHANGED <<path_exists, doc_pages, limit, option_input, option,
                   total_pages, files, dirs, temp_dirs, created_files,
                   temp_files, num_batches, i, part, all_created_files,
                   summary>>

\* Lines 230-248, second half: the archive is organized; a failure is caught.
Single4Organize ==
    /\ pc = "single4_organize"
    /\ \E outcome \in OrganizeOutcomes :
        LET sub_option == single_sub_options[sub_idx]
            r == process_zip_output(zip_file, sub_option, outcome)
            last == sub_idx = Len(single_sub_options)
        IN  /\ r.raised => Faults < MaxFaults
            /\ temp_dirs' = temp_dirs + r.scratch
            /\ IF r.raised
               THEN /\ zip_file' = NoZip
                    /\ trace' = trace \o <<Ev("organize_raised", 1, sub_option),
                                           Ev("failure", 1, sub_option)>>
                                      \o single4_tail(sub_option)
                    /\ UNCHANGED created_files
               ELSE /\ zip_file' = r.zip
                    /\ trace' = trace \o <<Ev("organized", 1, sub_option)>>
                                      \o single4_tail(sub_option)
                    /\ created_files' = r.created_files
            /\ sub_idx' = IF last THEN sub_idx ELSE sub_idx + 1
            /\ pc' = IF last THEN "summary" ELSE "single4_extract"
    /\ UNCHANGED <<path_exists, doc_pages, limit, option_input, option,
                   total_pages, files, dirs, temp_files, num_batches, i, part,
                   all_created_files, summary>>

\* Line 256: the one request of options 1-3 of the single-document branch;
\* nothing catches an exception here.
SingleExtract ==
    /\ pc = "single_extract"
    /\ \E outcome \in ExtractOutcomes :
        LET r == extract_single_pdf(zip_file, 1, option, outcome)
        IN  /\ r.raised => Faults < MaxFaults
            /\ zip_file' = r.zip
            /\ IF r.raised
               THEN /\ trace' = trace \o <<Ev("request", 1, option),
                                           Ev("traceback", 1, option)>>
                    /\ pc' = "crashed"
               ELSE /\ trace' = Append(trace, Ev("request", 1, option))
                    /\ pc' = "single_organize"
    /\ UNCHANGED <<path_exists, doc_pages, limit, option_input, option,
                   total_pages, files, dirs, temp_dirs, created_files,
                   temp_files, num_batches, i, sub_idx, part,
                   all_created_files, summary>>

\* Line 259: the archive of options 1-3 of the single-document branch is
\* organized; nothing catches an exception here.
SingleOrganize ==
    /\ pc = "single_organize"
    /\ \E outcome \in OrganizeOutcomes :
        LET r == process_zip_output(zip_file, option, outcome)
        IN  /\ r.raised => Faults < MaxFaults
            /\ temp_dirs' = temp_dirs + r.scratch
            /\ zip_file' = r.zip
            /\ IF r.raised
               THEN /\ trace' = trace \o <<Ev("organize_raised", 1, option),
                                           Ev("traceback", 1, option)>>
                    /\ pc' = "crashed"
                    /\ UNCHANGED created_files
               ELSE /\ trace' = Append(trace, Ev("organized", 1, option))
                    /\ created_files' = r.created_files
                    /\ pc' = "summary"
    /\ UNCHANGED <<path_exists, doc_pages, limit, option_input, option,
                   total_pages, files, dirs, temp_files, num_batches, i,
                   sub_idx, part, all_created_files, summary>>

\* Lines 265-276: the batched branch is taken; the document is split and the
\* main output folder is made.
PlanBatched ==
    /\ pc = "plan"
    /\ ~(total_pages <= PAGES_PER_BATCH)
    /\ num_batches' = num_batches_of(total_pages)
    /\ temp_files' = split_pdf(doc_pages, PAGES_PER_BATCH)
    /\ files' = files \cup TempPaths(temp_files')
    /\ dirs' = dirs \cup {output_folder}
    /\ i' = 0
    /\ pc' = "batch_begin"
    /\ UNCHANGED <<path_exists, doc_pages, limit, option_input, option,
                   total_pages, zip_file, temp_dirs, created_files, sub_idx,
                   part, all_created_files, summary, trace>>

\* Lines 278-287: a segment's page range, name and subfolder.
BatchBeginSegment ==
    /\ pc = "batch_begin"
    /\ LET start_page == start_page_of(i)
           end_page == end_page_of(i, total_pages)
       IN  /\ part' = part_folder(i, start_page, end_page)
           /\ dirs' = dirs \cup {part'}
    /\ sub_idx' = 1
    /\ pc' = "batch_extract"
    /\ UNCHANGED <<path_exists, doc_pages, limit, option_input, option,
                   total_pages, files, zip_file, temp_dirs, created_files,
                   temp_files, num_batches, i, all_created_files, summary,
                   trace>>

\* Lines 289-304, first half: the request of one kind for segment i; a
\* failure is caught.
BatchExtract ==
    /\ pc = "batch_extract"
    /\ \E outcome \in ExtractOutcomes :
        LET sub_option == options_to_run(option)[sub_idx]
            r == extract_single_pdf(zip_file, i + 1, sub_option, outcome)
            last == sub_idx = Len(options_to_run(option))
        IN  /\ r.raised => Faults < MaxFaults
            /\ IF r.raised
               THEN /\ zip_file' = NoZip
                    /\ trace' = trace \o <<Ev("request", i + 1, sub_option),
                                           Ev("failure", i + 1, sub_option)>>
                    /\ sub_idx' = IF last THEN sub_idx ELSE sub_idx + 1
                    /\ pc' = IF last THEN "batch_cleanup" ELSE "batch_extract"
               ELSE /\ zip_file' = r.zip
                    /\ trace' = Append(trace, Ev("request", i + 1, sub_option))
                    /\ pc' = "batch_organize"
                    /\ UNCHANGED sub_idx
    /\ UNCHANGED <<path_exists, doc_pages, limit, option_input, option,
                   total_pages, files, dirs, temp_dirs, created_files,
                   temp_files, num_batches, i, part, all_created_files,
                   summary>>

\* Lines 289-304, second half: the archive is organized into the segment's
\* subfolder; a failure is caught.
BatchOrganize ==
    /\ pc = "batch_organize"
    /\ \E outcome \in OrganizeOutcomes :
        LET sub_option == options_to_run(option)[sub_idx]
            r == process_zip_output(zip_file, sub_option, outcome)
            last == sub_idx = Len(options_to_run(option))
        IN  /\ r.raised => Faults < MaxFaults
            /\ temp_dirs' = temp_dirs + r.scratch
            /\ IF r.raised
               THEN /\ zip_file' = NoZip
                    /\ trace' = trace \o <<Ev("organize_raised", i + 1, sub_option),
                                           Ev("failure", i + 1, sub_option)>>
                    /\ UNCHANGED created_files
               ELSE /\ zip_file' = r.zip
                    /\ trace' = Append(trace, Ev("organized", i + 1, sub_option))
                    /\ created_files' = r.created_files
            /\ sub_idx' = IF last THEN sub_idx ELSE sub_idx + 1
            /\ pc' = IF last THEN "batch_cleanup" ELSE "batch_extract"
    /\ UNCHANGED <<path_exists, doc_pages, limit, option_input, option,
                   total_pages, files, dirs, temp_files, num_batches, i, part,
                   all_created_files, summary>>

BatchEndSegment_KeepFile ==
    /\ pc = "batch_cleanup"
    /\ i' = i + 1
    /\ pc' = IF i + 1 < Len(temp_files) THEN "batch_begin" ELSE "summary"
    /\ UNCHANGED <<path_exists, doc_pages, limit, option_input, option,
                   total_pages, files, dirs, zip_file, temp_dirs,
                   created_files, temp_files, num_batches, sub_idx, part,
                   all_created_files, summary, trace>>

\* Lines 306-308: the segment's temporary file is deleted; then the next
\* segment, or the end of the loop.
BatchEndSegment ==
    /\ pc = "batch_cleanup"
    /\ LET temp_pdf == temp_files[i + 1].path
       IN  IF temp_pdf # pdf_path
           THEN /\ files' = files \ {temp_pdf}
                /\ trace' = Append(trace, Ev("unlink", i + 1, 0))
           ELSE UNCHANGED <<files, trace>>
    /\ i' = i + 1
    /\ pc' = IF i + 1 < Len(temp_files) THEN "batch_begin" ELSE "summary"
    /\ UNCHANGED <<path_exists, doc_pages, limit, option_input, option,
                   total_pages, dirs, zip_file, temp_dirs, created_files,
                   temp_files, num_batches, sub_idx, part, all_created_files,
                   summary>>

\* Lines 261 / 310 and 312-317: the output folder is recorded and the summary
\* is printed.
Summary ==
    /\ pc = "summary"
    /\ all_created_files' = Append(all_created_files, output_folder)
    /\ summary' = [printed |-> TRUE, count |-> Len(all_created_files'),
                   paths |-> all_created_files']
    /\ pc' = "done"
    /\ UNCHANGED <<path_exists, doc_pages, limit, option_input, option,
                   total_pages, files, dirs, zip_file, temp_dirs,
                   created_files, temp_files, num_batches, i, sub_idx, part,
                   trace>>

Next ==
    \/ InputPath
    \/ SelectOption
    \/ PlanSingle
    \/ Single4Extract
    \/ Single4Organize
    \/ SingleExtract
    \/ SingleOrganize
    \/ PlanBatched
    \/ BatchBeginSegment
    \/ BatchExtract
    \/ BatchOrganize
    \/ BatchEndSegment
    \/ Summary

Spec == Init /\ [][Next]_vars

\* ------------------------------------------------- split_pdf on its own

\* A document of any page count up to MaxTotal and any limit up to MaxLimit.
InitSplit ==
    /\ pc = "split_call"
    /\ path_exists = TRUE
    /\ doc_pages \in 1..MaxTotal
    /\ limit \in 1..MaxLimit
    /\ option_input = NoInput
    /\ option = 0
    /\ total_pages = 0
    /\ files = {pdf_path}
    /\ dirs = {}
    /\ zip_file = NoZip
    /\ temp_dirs = 0
    /\ created_files = <<>>
    /\ temp_files = <<>>
    /\ num_batches = 0
    /\ i = 0
    /\ sub_idx = 1
    /\ part = output_folder
    /\ all_created_files = <<>>
    /\ summary = NoSummary
    /\ trace = <<>>

\* Lines 109-132: split_pdf(pdf_path, limit) is called and returns.
SplitCall ==
    /\ pc = "split_call"
    /\ temp_files' = split_pdf(doc_pages, limit)
    /\ files' = files \cup TempPaths(temp_files')
    /\ pc' = "split_returned"
    /\ UNCHANGED <<path_exists, doc_pages, limit, option_input, option,
                   total_pages, dirs, zip_file, temp_dirs, created_files,
                   num_batches, i, sub_idx, part, all_created_files, summary,
                   trace>>

NextSplit == SplitCall

SpecSplit == InitSplit /\ [][NextSplit]_vars

\* ------------------------------------------------------------ properties

IsRequest(e) == e.ev = "request"

\* The extraction requests issued so far, in order.
Requests == SelectSeq(trace, IsRequest)

\* The run took the batched branch.
Batched == temp_files # <<>>

\* Number of segments of the run.
NumSegments == IF Batched THEN Len(temp_files) ELSE 1

OrganizePositions == {"single4_organize", "single_organize", "batch_organize"}

\* C1: for every page count >= 1 and every limit >= 1, split_pdf returns the
\* document itself as the one segment when it fits the limit, and otherwise
\* ceil(total_pages/limit) segments in page order that are contiguous, do not
\* overlap, cover exactly 1..total_pages, and hold limit pages each except
\* possibly the last, which holds between 1 and limit pages.
C1_SplitPartitions ==
    pc = "split_returned" =>
        LET n == Len(temp_files)
        IN  IF doc_pages <= limit
            THEN /\ n = 1
                 /\ temp_files[1] = [path |-> pdf_path, first |-> 1,
                                     last |-> doc_pages]
            ELSE /\ n * limit >= doc_pages
                 /\ (n - 1) * limit < doc_pages
                 /\ temp_files[1].first = 1
                 /\ temp_files[n].last = doc_pages
                 /\ \A j \in 1..n :
                        /\ temp_files[j].first <= temp_files[j].last
                        /\ temp_files[j].last - temp_files[j].first + 1 <= limit
                 /\ \A j \in 1..(n - 1) :
                        /\ temp_files[j + 1].first = temp_files[j].last + 1
                        /\ temp_files[j].last - temp_files[j].first + 1 = limit

\* A document split into at least three segments, the last one shorter.
C1_Witness ==
    /\ pc = "split_returned"
    /\ doc_pages > limit
    /\ doc_pages % limit # 0
    /\ Len(temp_files) >= 3

\* C2: an exception of the extraction call or of the organizer for one
\* (segment, kind) never ends the run: the run attempts every remaining pair
\* and reaches the summary, in both modes and for every requested kind.
C2_FailureNeverEndsRun ==
    /\ pc # "crashed"
    /\ pc = "done" =>
          \A s \in 1..NumSegments :
              \A k \in 1..Len(options_to_run(option)) :
                  \E j \in DOMAIN trace :
                      trace[j] = Ev("request", s, options_to_run(option)[k])

\* C3: at the end of a batched run the reported manifest holds one created
\* sub-destination for every segment whose extraction succeeded (and a count
\* of the failed pairs).
C3_ManifestHoldsSegments ==
    (pc = "done" /\ Batched) =>
        \A s \in 1..Len(temp_files) :
            (\A j \in DOMAIN trace : ~(trace[j].ev = "failure" /\ trace[j].seg = s))
                => \E m \in DOMAIN summary.paths : summary.paths[m].part = s

\* C4: process_zip_output deletes its scratch directory and the source
\* archive before it exits, on every exit path: no scratch directory is ever
\* left on disk, and when it exits by an exception that nothing catches the
\* archive is gone too.
C4_OrganizerAlwaysCleansUp ==
    /\ temp_dirs = 0
    /\ (pc = "crashed" /\ \E j \in DOMAIN trace : trace[j].ev = "organize_raised")
          => zip_file = NoZip

\* C5: in batched mode the temporary file of a segment is deleted after the
\* segment's last kind and before any request for the next segment, whether
\* the requests succeeded or failed; at the end of the run no temporary
\* segment file remains; the input document is never deleted.
C5_TempFilesDeleted ==
    /\ path_exists => pdf_path \in files
    /\ Batched =>
          /\ \A t \in TempPaths(temp_files) : t \in files <=> t > i
          /\ pc \in {"summary", "done"} => files \cap TempPaths(temp_files) = {}
          /\ \A u \in DOMAIN trace :
                trace[u].ev = "unlink" =>
                    /\ Cardinality({j \in 1..u : trace[j].ev = "request"
                                                 /\ trace[j].seg = trace[u].seg})
                           = Len(options_to_run(option))
                    /\ \A j \in DOMAIN trace :
                           (trace[j].ev # "unlink" /\ trace[j].seg = trace[u].seg)
                               => j < u
          /\ \A j \in DOMAIN trace :
                (trace[j].ev = "request" /\ trace[j].seg > 1) =>
                    \E u \in 1..j : trace[u] = Ev("unlink", trace[j].seg - 1, 0)

\* A finished run over three segments in which a request of the first segment
\* failed.
C5_Witness ==
    /\ pc = "done"
    /\ Len(temp_files) = 3
    /\ \E j \in DOMAIN trace : trace[j].ev = "failure" /\ trace[j].seg = 1
    /\ \E u \in DOMAIN trace : trace[u] = Ev("unlink", 3, 0)

\* The requests a run with kind ALL issues over n segments, in order.
ExpectedRequests(n) ==
    [r \in 1..(3 * n) |-> Ev("request", ((r - 1) \div 3) + 1, ((r - 1) % 3) + 1)]

\* C6: a run with kind ALL issues exactly one request for each of TEXT,
\* IMAGES and TABLES for every segment, segments in page order and kinds in
\* the order TEXT, IMAGES, TABLES, and a request starts only after the
\* previous one has failed or has returned and its archive has been organized.
C6_RequestsSequential ==
    option = 4 =>
        /\ Len(Requests) <= 3 * NumSegments
        /\ Requests = SubSeq(ExpectedRequests(NumSegments), 1, Len(Requests))
        /\ pc = "done" => Len(Requests) = 3 * NumSegments
        /\ \A j \in DOMAIN Requests :
              /\ get_extract_params(Requests[j].kind).raises = FALSE
              /\ "TEXT" \in get_extract_params(Requests[j].kind).elements
                    <=> Requests[j].kind \in {1, 2}
              /\ "FIGURES" \in get_extract_params(Requests[j].kind).renditions
                    <=> Requests[j].kind = 2
              /\ "TABLES" \in get_extract_params(Requests[j].kind).elements
                    <=> Requests[j].kind = 3
        /\ \A j \in DOMAIN trace :
              trace[j].ev = "request" =>
                  IF j = Len(trace)
                  THEN /\ pc \in OrganizePositions
                       /\ zip_file = [state |-> "archive", seg |-> trace[j].seg,
                                      kind |-> trace[j].kind]
                  ELSE /\ trace[j + 1].ev \in {"failure", "organized", "organize_raised"}
                       /\ trace[j + 1].seg = trace[j].seg
                       /\ trace[j + 1].kind = trace[j].kind

\* A finished run with kind ALL over two segments: six requests.
C6_Witness ==
    /\ pc = "done"
    /\ option = 4
    /\ Len(temp_files) = 2
    /\ Len(Requests) = 6

\* Nothing was requested, split or created.
NoOutput ==
    /\ trace = <<>>
    /\ temp_files = <<>>
    /\ files \subseteq {pdf_path}
    /\ dirs = {}
    /\ zip_file = NoZip
    /\ temp_dirs = 0
    /\ ~summary.printed

\* C7: when the input path does not exist or the answer to the option prompt
\* is not one of 1-4, the run ends at once in a terminal state with no
\* request issued, no PDF split and no folder, temporary file or archive
\* created.
C7_ValidationFailsFast ==
    /\ (~path_exists /\ pc # "input_path") => pc = "terminated"
    /\ (option_input # NoInput
            /\ ~(option_input.numeric /\ option_input.value \in 1..4))
          => pc = "terminated"
    /\ pc = "terminated" => NoOutput

\* The run ended on the answer 5 to the option prompt.
C7_Witness ==
    /\ pc = "terminated"
    /\ option_input = [numeric |-> TRUE, value |-> 5]

\* C8: after every (segment, kind) unit of work, however it ended, no archive
\* remains at the shared archive path, so the path is empty at the start of
\* every request and the organizer only ever gets the archive of the unit it
\* is called for; in both modes and for every requested kind.
C8_NoArchiveLeftBehind ==
    /\ pc \notin OrganizePositions => zip_file = NoZip
    /\ pc \in OrganizePositions =>
          /\ zip_file.state = "archive"
          /\ Ev("request", zip_file.seg, zip_file.kind) = Last(trace)

\* C9: in a run with kind ALL, in either mode, the delay occurs between every
\* two consecutive extraction requests.
C9_DelayBetweenRequests ==
    option = 4 =>
        \A j, k \in DOMAIN trace :
            (/\ j < k
             /\ trace[j].ev = "request"
             /\ trace[k].ev = "request"
             /\ \A m \in (j + 1)..(k - 1) : trace[m].ev # "request")
                => \E m \in (j + 1)..(k - 1) : trace[m].ev = "sleep"

\* C10: in batched mode num_batches is the number of segments split_pdf
\* returned, and the page range that names the i-th subfolder is the range of
\* original pages split_pdf wrote into the i-th segment file.
C10_BookkeepingAgrees ==
    Batched =>
        /\ num_batches = Len(temp_files)
        /\ \A d \in dirs :
              d.part >= 1 =>
                  /\ d.part <= Len(temp_files)
                  /\ temp_files[d.part].first = d.start_page
                  /\ temp_files[d.part].last = d.end_page
        /\ pc \in {"summary", "done"} =>
              \A s \in 1..Len(temp_files) : \E d \in dirs : d.part = s

\* A finished batched run whose last segment is shorter than the others.
C10_Witness ==
    /\ pc = "done"
    /\ Len(temp_files) = 3
    /\ total_pages % PAGES_PER_BATCH # 0
    /\ Cardinality(dirs) = 4

====
